---- MODULE Spec2Model ----
(***************************************************************************)
(* A model of the two persistent structures of live777's recorder:        *)
(*   - RecordingsIndex (liveion/src/recorder/index.rs): an in-memory map   *)
(*     backed by an append-only log that is compacted every 200 writes     *)
(*     and after delete_acked;                                             *)
(*   - UploadManager (liveion/src/recorder/uploader.rs): an in-memory job  *)
(*     map backed by a snapshot file, a poll loop and bounded uploads.     *)
(* Files are sequences of tokens: a serialised entry is the tuple of its   *)
(* fields between "{" and "}", a line ends with the token "\n".            *)
(***************************************************************************)
EXTENDS Integers, Sequences, FiniteSets, Bags, TLC

\* ------------------------------------------------------------- bounds
\* API calls started on the index in one behaviour.
MaxCalls == 3
\* Largest reading of the wall clock (Utc::now).
MaxTime == 1
\* enqueue calls started in one behaviour.
MaxEnqueues == 2
\* Largest retry_count a job reaches (the storage stops failing after it).
MaxRetries == 1

\* Largest retry_count of a job found in the queue file at startup.
MaxLoadedRetry == 10

\* Characters of a stream name.
MaxStreamLen == 2

\* Lines of a log file found at startup.
MaxLines == 3

\* ------------------------------------------------------ program constants
\* index.rs:229  `if count % 200 == 0`
COMPACT_EVERY == 200
\* index.rs:125  `if limit == 0 { 100 }`
DEFAULT_LIMIT == 100
\* uploader.rs:230  `let base = 5_000i64`
BASE_DELAY == 5000
\* uploader.rs:231  `let max = 10 * 60 * 1000i64`
MAX_DELAY == 600000
\* uploader.rs:232  `retry.min(10)`
MAX_SHIFT == 10

\* Option<T>: None is the empty tuple, Some(x) the one-element tuple.
None == <<>>
Some(x) == <<x>>

\* ------------------------------------------------------------- inputs
\* RecordingStatus (api::recorder); "Acked" is the tombstone status.
RecordingStatus == {"Recording", "Completed", "Failed", "Acked"}
\* (stream, record) pairs callers name.
K1 == [stream |-> "a", record |-> "r2"]
K2 == [stream |-> "b", record |-> "r1"]
KeyInputs == {K1, K2}
StreamInputs == {k.stream : k \in KeyInputs}
EndTsInputs == {None, Some(7)}
Tasks == {1, 2}
NoTask == 0

\* Byte order of the stream and record names used (String::cmp).
StrRank(s) == CASE s = "a" -> 1 [] s = "b" -> 2 [] s = "r1" -> 3 [] s = "r2" -> 4

VARIABLES
  entries,      \* RecordingsIndex.entries: key -> RecordingIndexEntry
  file,         \* the log file at RecordingsIndex.path
  tmp,          \* the temporary file of a compaction (tmp_path_for)
  write_lock,   \* RecordingsIndex.write_lock: the task holding it, or NoTask
  flock,        \* the exclusive lock on the companion .lock file
  write_count,  \* RecordingsIndex.write_count
  now,          \* the wall clock, in microseconds
  pc,           \* each task's position in the call it executes
  pend,         \* each task's `entries` argument of append_entries
  wi,           \* each task's number of lines already written by append_entries
  snap,         \* each task's sorted snapshot taken by compact()
  ret,          \* each task's last call: its name, whether it returned, its count
  listed,       \* the last result of list_sessions
  calls,        \* number of API calls started (bounds the behaviours)
  fileop,       \* history: the file operation that holds the lock file
  del,          \* history: per key, the delete_acked that removed it
  crash         \* history: the crash of the process and the load that followed

\* The variables of the UploadManager.
VARIABLES
  q_entries,    \* UploadManager.entries: job id -> UploadEntry
  q_file,       \* the queue file at cfg.queue_path
  q_tmp,        \* the temporary file of persist_queue
  q_write_lock, \* UploadManager.write_lock: TRUE while it is held
  permits,      \* available permits of UploadManager.semaphore
  concurrency,  \* cfg.concurrency
  nowMs,        \* the wall clock, in milliseconds
  poll,         \* the background loop: its position and the entries left to dispatch
  procs,        \* the bag of processes: the enqueue caller and the spawned
                \* attempts, each with its position, its UploadEntry, the snapshot
                \* persist_queue took and its reason to persist
  localfiles,   \* the local paths that exist on disk
  uhist         \* history: confirmed uploads, attempts, the crash and its reload

fsVars == <<file, tmp>>
lockVars == <<write_lock, flock>>
taskVars == <<pc, pend, wi, snap, ret>>
histVars == <<fileop, del, crash>>
idxVars == <<entries, fsVars, lockVars, write_count, now, taskVars, listed, calls, histVars>>
upVars == <<q_entries, q_file, q_tmp, q_write_lock, permits, concurrency, nowMs, poll,
            procs, localfiles, uhist>>
VARIABLES
  rid           \* a RecordingId, its path and what from_path reads back

vars == <<idxVars, upVars, rid>>

\* No RecordingId has been built.
NoRid == [phase |-> "none", id |-> [stream |-> <<>>, timestamp |-> 0], path |-> <<>>,
          parsed |-> <<>>]

\* ------------------------------------------------------------ the map
\* RecordingIndexEntry::key
Key(e) == e.stream \o "/" \o e.record

EmptyMap == [k \in {} |-> None]
MapInsert(m, k, v) == [x \in (DOMAIN m) \cup {k} |-> IF x = k THEN v ELSE m[x]]
MapRemove(m, k) == [x \in (DOMAIN m) \ {k} |-> m[x]]
Values(m) == {m[k] : k \in DOMAIN m}

\* ------------------------------------------------------ serialisation
Absent == [exists |-> FALSE, data |-> <<>>]
NL == "\n"

OptToken(o) == IF o = None THEN "null" ELSE ToString(o[1])

\* serde_json::to_string(&entry): the fields in declaration order. The
\* fields no operation of the index reads or writes (record_dir, mpd_path,
\* start_ts, node_alias) are left out of the entries.
ToJson(e) == <<"{", e.record, e.stream, OptToken(e.end_ts), OptToken(e.duration_ms),
               e.status, ToString(e.updated_at), "}">>

IntDomain == 0..(MaxTime + 7)
IsIntToken(t) == \E n \in IntDomain : ToString(n) = t
IntOf(t) == CHOOSE n \in IntDomain : ToString(n) = t
IsOptToken(t) == t = "null" \/ IsIntToken(t)
OptOf(t) == IF t = "null" THEN None ELSE Some(IntOf(t))

\* serde_json::from_str::<RecordingIndexEntry>(line) succeeds
IsJsonEntry(l) ==
  /\ Len(l) = 8
  /\ l[1] = "{"
  /\ l[8] = "}"
  /\ \A i \in 2..7 : l[i] \notin {"{", "}", "[", "]", ",", NL}
  /\ IsOptToken(l[4])
  /\ IsOptToken(l[5])
  /\ l[6] \in RecordingStatus
  /\ IsIntToken(l[7])

FromJson(l) == [record |-> l[2], stream |-> l[3], end_ts |-> OptOf(l[4]),
                duration_ms |-> OptOf(l[5]), status |-> l[6],
                updated_at |-> IntOf(l[7])]

\* str::trim on a file content: whitespace is the line terminator here.
RECURSIVE TrimStart(_)
TrimStart(s) == IF s # <<>> /\ Head(s) = NL THEN TrimStart(Tail(s)) ELSE s
RECURSIVE TrimEnd(_)
TrimEnd(s) == IF s # <<>> /\ s[Len(s)] = NL THEN TrimEnd(SubSeq(s, 1, Len(s) - 1)) ELSE s
Trim(s) == TrimEnd(TrimStart(s))

\* str::lines: split at "\n"; a final line needs no terminator.
RECURSIVE SplitLines(_, _)
SplitLines(s, cur) ==
  IF s = <<>> THEN (IF cur = <<>> THEN <<>> ELSE <<cur>>)
  ELSE IF Head(s) = NL THEN <<cur>> \o SplitLines(Tail(s), <<>>)
  ELSE SplitLines(Tail(s), Append(cur, Head(s)))
Lines(s) == SplitLines(s, <<>>)

LoadErr == [ok |-> FALSE, map |-> EmptyMap]
LoadOk(m) == [ok |-> TRUE, map |-> m]

\* The keys the callers can name.
AllKeys == {Key(k) : k \in KeyInputs}

\* A faulty loop in which the first line of a key wins; C14 must tell it
\* from LoadLines.
RECURSIVE LoadLinesFirstWins(_, _)
LoadLinesFirstWins(ls, m) ==
  IF ls = <<>> THEN LoadOk(m)
  ELSE IF Head(ls) = <<>> THEN LoadLinesFirstWins(Tail(ls), m)
  ELSE IF ~IsJsonEntry(Head(ls)) THEN LoadErr
  ELSE IF Key(FromJson(Head(ls))) \in DOMAIN m THEN LoadLinesFirstWins(Tail(ls), m)
  ELSE LoadLinesFirstWins(Tail(ls), MapInsert(m, Key(FromJson(Head(ls))), FromJson(Head(ls))))

\* A faulty loop that skips the lines that do not parse; C15 must tell it
\* from LoadLines.
RECURSIVE LoadLinesSkipping(_, _)
LoadLinesSkipping(ls, m) ==
  IF ls = <<>> THEN LoadOk(m)
  ELSE IF Head(ls) = <<>> \/ ~IsJsonEntry(Head(ls)) THEN LoadLinesSkipping(Tail(ls), m)
  ELSE LoadLinesSkipping(Tail(ls), MapInsert(m, Key(FromJson(Head(ls))), FromJson(Head(ls))))

\* The line-log branch of load: every non-empty line must parse; later
\* lines replace earlier ones with the same key.
RECURSIVE LoadLines(_, _)
LoadLines(ls, m) ==
  IF ls = <<>> THEN LoadOk(m)
  ELSE IF Head(ls) = <<>> THEN LoadLines(Tail(ls), m)
  ELSE IF ~IsJsonEntry(Head(ls)) THEN LoadErr
  ELSE LoadLines(Tail(ls), MapInsert(m, Key(FromJson(Head(ls))), FromJson(Head(ls))))

\* serde_json::from_str::<Vec<RecordingIndexEntry>>: "[" e ("," e)* "]" and
\* nothing after it.
RECURSIVE ParseArrayItems(_, _)
ParseArrayItems(s, m) ==
  IF Len(s) < 9 \/ ~IsJsonEntry(SubSeq(s, 1, 8)) THEN LoadErr
  ELSE LET e == FromJson(SubSeq(s, 1, 8))
           m2 == MapInsert(m, Key(e), e)
       IN IF s[9] = "]" THEN (IF Len(s) = 9 THEN LoadOk(m2) ELSE LoadErr)
          ELSE IF s[9] = "," THEN ParseArrayItems(SubSeq(s, 10, Len(s)), m2)
          ELSE LoadErr
ParseArray(s) ==
  IF s = <<"[", "]">> THEN LoadOk(EmptyMap)
  ELSE ParseArrayItems(Tail(s), EmptyMap)

\* RecordingsIndex::load applied to the file at the log path.
Load(f) ==
  IF ~f.exists THEN LoadOk(EmptyMap)
  ELSE LET trimmed == Trim(f.data)
       IN IF trimmed = <<>> THEN LoadOk(EmptyMap)
          ELSE IF Head(trimmed) = "[" THEN ParseArray(trimmed)
          ELSE LoadLines(Lines(trimmed), EmptyMap)

\* ----------------------------------------------------- the initial state
NoCall == [op |-> "none", id |-> 0, done |-> TRUE, count |-> 0, req |-> <<>>]
NoListing == [valid |-> FALSE, stream |-> None, since_ts |-> None, limit |-> 0,
              sessions |-> <<>>, last_ts |-> None, first |-> None, got |-> <<>>]
NoFileOp == [kind |-> "none", pre |-> Absent, post |-> Absent]
NoDel == [by |-> NoTask, returned |-> FALSE]
NoCrash == [seen |-> FALSE, during |-> "none", pre |-> Absent, post |-> Absent,
            observed |-> Absent, inflight |-> {}, loaded |-> LoadOk(EmptyMap)]

\* write_count values the program reaches with an empty map and an empty
\* log: n - 1 upserts of one key, its ack and its delete_acked leave the
\* counter at n, the map empty and the file compacted to no lines.
StartCounts == {0, COMPACT_EVERY - 2}

TaskInit ==
  /\ write_lock = NoTask
  /\ flock = NoTask
  /\ pc = [t \in Tasks |-> "idle"]
  /\ pend = [t \in Tasks |-> <<>>]
  /\ wi = [t \in Tasks |-> 0]
  /\ snap = [t \in Tasks |-> <<>>]
  /\ ret = [t \in Tasks |-> NoCall]
  /\ listed = NoListing
  /\ calls = 0
  /\ now = 0
  /\ rid = NoRid
  /\ fileop = NoFileOp
  /\ del = [k \in AllKeys |-> NoDel]
  /\ crash = NoCrash

\* RecordingsIndex::load of a missing file, or the state after a first
\* history that left the map and the log empty.
IndexInit ==
  /\ TaskInit
  /\ entries = EmptyMap
  /\ file \in {Absent, [exists |-> TRUE, data |-> <<>>]}
  /\ tmp = Absent
  /\ write_count \in (IF file.exists THEN StartCounts ELSE {0})

\* The process is down: the load at startup failed.
Down == crash.seen /\ ~crash.loaded.ok

\* ------------------------------------------------- RecordingsIndex calls
\* A caller starts a call of the index.
Call(t) ==
  /\ pc[t] = "idle"
  /\ ~Down
  /\ calls < MaxCalls
  /\ calls' = calls + 1

Started(op, done, count, req) ==
  [op |-> op, id |-> calls + 1, done |-> done, count |-> count, req |-> req]

\* upsert: insert under the write side of the map lock, then append.
Upsert(t, e) ==
  /\ Call(t)
  /\ entries' = MapInsert(entries, Key(e), e)
  /\ pend' = [pend EXCEPT ![t] = <<e>>]
  /\ wi' = [wi EXCEPT ![t] = 0]
  /\ pc' = [pc EXCEPT ![t] = "append_mutex"]
  /\ ret' = [ret EXCEPT ![t] = Started("upsert", FALSE, 0, <<>>)]
  /\ del' = [del EXCEPT ![Key(e)] = NoDel]
  /\ UNCHANGED <<fsVars, lockVars, write_count, now, snap, listed, fileop, crash, upVars, rid>>

\* update_status: mutate the entry if the key is present, then append it.
UpdateStatus(t, k, status, end_ts, duration_ms) ==
  LET key == k.stream \o "/" \o k.record
      found == key \in DOMAIN entries
      entry == [entries[key] EXCEPT !.status = status, !.end_ts = end_ts,
                                    !.duration_ms = duration_ms, !.updated_at = now]
  IN /\ Call(t)
     /\ entries' = IF found THEN [entries EXCEPT ![key] = entry] ELSE entries
     /\ pend' = [pend EXCEPT ![t] = IF found THEN <<entry>> ELSE <<>>]
     /\ wi' = [wi EXCEPT ![t] = 0]
     /\ pc' = [pc EXCEPT ![t] = IF found THEN "append_mutex" ELSE "idle"]
     /\ ret' = [ret EXCEPT ![t] = Started("update_status", ~found, 0, <<k>>)]
     /\ UNCHANGED <<fsVars, lockVars, write_count, now, snap, listed, histVars, upVars, rid>>

\* A faulty ack loop that counts every named key, found or not; C13 must
\* tell it from AckLoop.
RECURSIVE AckLoopCountNamed(_, _, _)
AckLoopCountNamed(m, recs, ts) ==
  IF recs = <<>> THEN [map |-> m, n |-> 0]
  ELSE LET key == Head(recs).stream \o "/" \o Head(recs).record
           m2 == IF key \in DOMAIN m
                 THEN [m EXCEPT ![key] = [m[key] EXCEPT !.status = "Acked",
                                                        !.updated_at = ts]]
                 ELSE m
           r == AckLoopCountNamed(m2, Tail(recs), ts)
       IN [map |-> r.map, n |-> r.n + 1]

\* The loop of ack over req.records: every named key found is set to Acked.
RECURSIVE AckLoop(_, _, _)
AckLoop(m, recs, ts) ==
  IF recs = <<>> THEN [map |-> m, n |-> 0]
  ELSE LET key == Head(recs).stream \o "/" \o Head(recs).record
           m2 == IF key \in DOMAIN m
                 THEN [m EXCEPT ![key] = [m[key] EXCEPT !.status = "Acked",
                                                        !.updated_at = ts]]
                 ELSE m
           r == AckLoop(m2, Tail(recs), ts)
       IN [map |-> r.map, n |-> r.n + (IF key \in DOMAIN m THEN 1 ELSE 0)]

\* ack, first block: mark the named entries under the write lock of the map.
Ack(t, recs) ==
  LET r == AckLoop(entries, recs, now)
  IN /\ Call(t)
     /\ entries' = r.map
     /\ pc' = [pc EXCEPT ![t] = IF r.n > 0 THEN "ack_collect" ELSE "idle"]
     /\ ret' = [ret EXCEPT ![t] = Started("ack", r.n = 0, r.n, recs)]
     /\ pend' = [pend EXCEPT ![t] = <<>>]
     /\ wi' = [wi EXCEPT ![t] = 0]
     /\ UNCHANGED <<fsVars, lockVars, write_count, now, snap, listed, histVars, upVars, rid>>

\* records.iter().filter_map(|key| map.get(..).cloned()) of ack
RECURSIVE FilterMapGet(_, _)
FilterMapGet(m, recs) ==
  IF recs = <<>> THEN <<>>
  ELSE LET key == Head(recs).stream \o "/" \o Head(recs).record
       IN (IF key \in DOMAIN m THEN <<m[key]>> ELSE <<>>) \o FilterMapGet(m, Tail(recs))

\* ack, second block: re-read the map and collect the entries to append.
AckCollect(t) ==
  LET es == FilterMapGet(entries, ret[t].req)
  IN /\ pc[t] = "ack_collect"
     /\ pend' = [pend EXCEPT ![t] = es]
     /\ pc' = [pc EXCEPT ![t] = IF es # <<>> THEN "append_mutex" ELSE "idle"]
     /\ ret' = [ret EXCEPT ![t].done = (es = <<>>)]
     /\ UNCHANGED <<entries, fsVars, lockVars, write_count, now, wi, snap, listed, calls,
                    histVars, upVars, rid>>

\* A faulty delete loop that removes a named key whatever its status; the
\* guard of C9 must tell it from DeleteLoop.
RECURSIVE DeleteLoopAnyStatus(_, _)
DeleteLoopAnyStatus(m, recs) ==
  IF recs = <<>> THEN [map |-> m, n |-> 0]
  ELSE LET key == Head(recs).stream \o "/" \o Head(recs).record
           hit == key \in DOMAIN m
           r == DeleteLoopAnyStatus(IF hit THEN MapRemove(m, key) ELSE m, Tail(recs))
       IN [map |-> r.map, n |-> r.n + (IF hit THEN 1 ELSE 0)]

\* The loop of delete_acked: a named key is removed only if present and Acked.
RECURSIVE DeleteLoop(_, _)
DeleteLoop(m, recs) ==
  IF recs = <<>> THEN [map |-> m, n |-> 0]
  ELSE LET key == Head(recs).stream \o "/" \o Head(recs).record
           hit == key \in DOMAIN m /\ m[key].status = "Acked"
           r == DeleteLoop(IF hit THEN MapRemove(m, key) ELSE m, Tail(recs))
       IN [map |-> r.map, n |-> r.n + (IF hit THEN 1 ELSE 0)]

\* An upsert of key k has inserted its entry and has not returned.
UpsertPending(k) ==
  \E t \in Tasks : ret[t].op = "upsert" /\ ~ret[t].done /\ pend[t] # <<>> /\ Key(pend[t][1]) = k

\* delete_acked: remove, then compact if anything was removed. The call
\* goes to compact() directly, not through the write mutex.
DeleteAcked(t, recs) ==
  LET r == DeleteLoop(entries, recs)
  IN /\ Call(t)
     /\ entries' = r.map
     /\ pc' = [pc EXCEPT ![t] = IF r.n > 0 THEN "compact_snap" ELSE "idle"]
     /\ ret' = [ret EXCEPT ![t] = Started("delete_acked", r.n = 0, r.n, recs)]
     /\ pend' = [pend EXCEPT ![t] = <<>>]
     /\ wi' = [wi EXCEPT ![t] = 0]
     /\ del' = [k \in AllKeys |->
                  IF k \in DOMAIN entries /\ k \notin DOMAIN r.map
                  THEN (IF UpsertPending(k) THEN NoDel ELSE [by |-> t, returned |-> FALSE])
                  ELSE del[k]]
     /\ UNCHANGED <<fsVars, lockVars, write_count, now, snap, listed, fileop, crash, upVars, rid>>

\* ------------------------------------- append_entries_and_maybe_compact
\* `let _guard = self.write_lock.lock().await`
AppendMutex(t) ==
  /\ pc[t] = "append_mutex"
  /\ write_lock = NoTask
  /\ write_lock' = t
  /\ pc' = [pc EXCEPT ![t] = "append_flock"]
  /\ UNCHANGED <<entries, fsVars, flock, write_count, now, pend, wi, snap, ret, listed,
                 calls, histVars, upVars, rid>>

\* append_entries: lock_file, then open the log with create + append.
AppendLockFile(t) ==
  /\ pc[t] = "append_flock"
  /\ flock = NoTask
  /\ flock' = t
  /\ file' = [exists |-> TRUE, data |-> file.data]
  /\ fileop' = [kind |-> "append", pre |-> file', post |-> file']
  /\ pc' = [pc EXCEPT ![t] = "append_write"]
  /\ UNCHANGED <<entries, tmp, write_lock, write_count, now, pend, wi, snap, ret, listed,
                 calls, del, crash, upVars, rid>>

\* One `writeln!(file, "{}", line)` of the loop.
AppendWriteLine(t) ==
  /\ pc[t] = "append_write"
  /\ wi[t] < Len(pend[t])
  /\ file' = [file EXCEPT !.data = @ \o ToJson(pend[t][wi[t] + 1]) \o <<NL>>]
  /\ wi' = [wi EXCEPT ![t] = @ + 1]
  /\ UNCHANGED <<entries, tmp, lockVars, write_count, now, pc, pend, snap, ret, listed,
                 calls, histVars, upVars, rid>>

\* `count % 200 == 0` of append_entries_and_maybe_compact
CompactionDue(count) == count % COMPACT_EVERY = 0

\* End of append_entries (sync, the lock file is released), then the
\* counter: fetch_add and the test for a compaction.
AppendFinish(t) ==
  LET count == write_count + Len(pend[t])
  IN /\ pc[t] = "append_write"
     /\ wi[t] = Len(pend[t])
     /\ flock' = NoTask
     /\ fileop' = NoFileOp
     /\ write_count' = count
     /\ IF CompactionDue(count)
        THEN /\ pc' = [pc EXCEPT ![t] = "compact_snap"]
             /\ UNCHANGED <<write_lock, ret>>
        ELSE /\ pc' = [pc EXCEPT ![t] = "idle"]
             /\ write_lock' = NoTask
             /\ ret' = [ret EXCEPT ![t].done = TRUE]
     /\ UNCHANGED <<entries, fsVars, now, pend, wi, snap, listed, calls, del, crash, upVars, rid>>

\* ------------------------------------------------------------ compaction
\* sort_by(stream, then record) of compact()
EntryBefore(a, b) ==
  \/ StrRank(a.stream) < StrRank(b.stream)
  \/ (a.stream = b.stream /\ StrRank(a.record) < StrRank(b.record))

\* A faulty sort by (record, stream); C16 must tell it from SortedValues.
RECURSIVE SortedByRecord(_)
SortedByRecord(S) ==
  IF S = {} THEN <<>>
  ELSE LET first == CHOOSE a \in S : \A b \in S \ {a} :
                      \/ StrRank(a.record) < StrRank(b.record)
                      \/ (a.record = b.record /\ StrRank(a.stream) < StrRank(b.stream))
       IN <<first>> \o SortedByRecord(S \ {first})

RECURSIVE SortedValues(_)
SortedValues(S) ==
  IF S = {} THEN <<>>
  ELSE LET first == CHOOSE a \in S : \A b \in S \ {a} : EntryBefore(a, b)
       IN <<first>> \o SortedValues(S \ {first})

\* compact() written to take the write mutex itself before its snapshot: the
\* mutex is not reentrant, so a caller that holds it waits for itself.
CompactSnapshotLocking(t) ==
  /\ pc[t] = "compact_snap"
  /\ write_lock = NoTask
  /\ write_lock' = t
  /\ snap' = [snap EXCEPT ![t] = SortedValues(Values(entries))]
  /\ pc' = [pc EXCEPT ![t] = "compact_flock"]
  /\ UNCHANGED <<entries, fsVars, flock, write_count, now, pend, wi, ret, listed,
                 calls, histVars, upVars, rid>>

\* compact(): snapshot of the map under its read lock, sorted.
CompactSnapshot(t) ==
  /\ pc[t] = "compact_snap"
  /\ snap' = [snap EXCEPT ![t] = SortedValues(Values(entries))]
  /\ pc' = [pc EXCEPT ![t] = "compact_flock"]
  /\ UNCHANGED <<entries, fsVars, lockVars, write_count, now, pend, wi, ret, listed,
                 calls, histVars, upVars, rid>>

RECURSIVE JsonLines(_)
JsonLines(es) ==
  IF es = <<>> THEN <<>> ELSE ToJson(Head(es)) \o <<NL>> \o JsonLines(Tail(es))

\* compact_with_entries: lock_file
CompactLockFile(t) ==
  /\ pc[t] = "compact_flock"
  /\ flock = NoTask
  /\ flock' = t
  /\ fileop' = [kind |-> "compact", pre |-> file,
                post |-> [exists |-> TRUE, data |-> JsonLines(snap[t])]]
  /\ pc' = [pc EXCEPT ![t] = "compact_tmp"]
  /\ UNCHANGED <<entries, fsVars, write_lock, write_count, now, pend, wi, snap, ret,
                 listed, calls, del, crash, upVars, rid>>

\* compact_with_entries: the temporary file is truncated and written.
CompactWriteTmp(t) ==
  /\ pc[t] = "compact_tmp"
  /\ tmp' = [exists |-> TRUE, data |-> JsonLines(snap[t])]
  /\ pc' = [pc EXCEPT ![t] = "compact_remove"]
  /\ UNCHANGED <<entries, file, lockVars, write_count, now, pend, wi, snap, ret, listed,
                 calls, histVars, upVars, rid>>

\* `if metadata(&path).is_ok() { let _ = remove_file(&path); }`
CompactRemove(t) ==
  /\ pc[t] = "compact_remove"
  /\ file' = IF file.exists THEN Absent ELSE file
  /\ pc' = [pc EXCEPT ![t] = "compact_rename"]
  /\ UNCHANGED <<entries, tmp, lockVars, write_count, now, pend, wi, snap, ret, listed,
                 calls, histVars, upVars, rid>>

\* rename(tmp, path), sync of the directory, the lock file is released and
\* the call returns (dropping the write mutex if the caller held it).
CompactRename(t) ==
  /\ pc[t] = "compact_rename"
  /\ file' = tmp
  /\ tmp' = Absent
  /\ flock' = NoTask
  /\ fileop' = NoFileOp
  /\ write_lock' = IF write_lock = t THEN NoTask ELSE write_lock
  /\ pc' = [pc EXCEPT ![t] = "idle"]
  /\ ret' = [ret EXCEPT ![t].done = TRUE]
  /\ del' = [k \in AllKeys |->
               IF ret[t].op = "delete_acked" /\ del[k].by = t
               THEN [by |-> t, returned |-> TRUE] ELSE del[k]]
  /\ UNCHANGED <<entries, write_count, now, pend, wi, snap, listed, calls, crash, upVars, rid>>

\* ------------------------------------------------------------ list_sessions
\* The orders in which HashMap::values may yield the entries.
Orders(S) ==
  {o \in [1..Cardinality(S) -> S] : \A i, j \in 1..Cardinality(S) : i # j => o[i] # o[j]}

\* Vec::retain
Retain(rows, P(_)) == SelectSeq(rows, P)

\* Insertion that keeps equal updated_at in their given order.
RECURSIVE InsertSorted(_, _)
InsertSorted(sorted, x) ==
  IF sorted = <<>> THEN <<x>>
  ELSE IF x.updated_at < Head(sorted).updated_at THEN <<x>> \o sorted
  ELSE <<Head(sorted)>> \o InsertSorted(Tail(sorted), x)

\* A faulty sort that leaves the rows in the order of the map; C11 must
\* tell it from SortByUpdatedAt.
Unsorted(rows) == rows

\* rows.sort_by(updated_at), a stable sort
RECURSIVE SortByUpdatedAt(_)
SortByUpdatedAt(rows) ==
  IF rows = <<>> THEN <<>>
  ELSE InsertSorted(SortByUpdatedAt(SubSeq(rows, 1, Len(rows) - 1)), rows[Len(rows)])

Truncate(rows, n) == IF Len(rows) > n THEN SubSeq(rows, 1, n) ELSE rows

MaxUpdatedAt(rows) ==
  IF rows = <<>> THEN None
  ELSE Some(CHOOSE m \in {rows[i].updated_at : i \in 1..Len(rows)} :
              \A i \in 1..Len(rows) : rows[i].updated_at <= m)

\* RecordingSession built from a row
Session(r) == [id |-> Some(r.record), stream |-> r.stream, end_ts |-> r.end_ts,
               duration_ms |-> r.duration_ms, status |-> r.status]

\* A faulty filter that retains every row; C10 must tell it from NotAcked.
RetainAll(r) == TRUE

\* `rows.retain(|r| !matches!(r.status, RecordingStatus::Acked))`
NotAcked(r) == r.status # "Acked"

\* list_sessions on the rows in the order the map yielded them.
ListRows(rows, stream, since_ts, limit) ==
  LET lim == IF limit = 0 THEN DEFAULT_LIMIT ELSE limit
      ByStream(r) == stream = None \/ r.stream = stream[1]
      BySince(r) == since_ts = None \/ r.updated_at > since_ts[1]
      kept == Retain(Retain(Retain(rows, ByStream), BySince), NotAcked)
      out == Truncate(SortByUpdatedAt(kept), lim)
  IN [sessions |-> [i \in 1..Len(out) |-> Session(out[i])], last_ts |-> MaxUpdatedAt(out)]

ListSessions(t, stream, since_ts, limit) ==
  /\ Call(t)
  /\ pc' = [pc EXCEPT ![t] = "list_done"]
  /\ \E rows \in Orders(Values(entries)) :
       LET r == ListRows(rows, stream, since_ts, limit)
       IN listed' = [valid |-> TRUE, stream |-> stream, since_ts |-> since_ts,
                     limit |-> limit, sessions |-> r.sessions, last_ts |-> r.last_ts,
                     first |-> since_ts, got |-> <<>>]
  /\ UNCHANGED <<entries, fsVars, lockVars, write_count, now, pend, wi, snap, ret,
                 histVars, upVars, rid>>

\* The caller polls: list_sessions again with the same stream and limit and
\* with the cursor the previous call returned as since_ts. `first` keeps the
\* since_ts of the first call and `got` the sessions of the earlier pages.
PollAgain(t) ==
  /\ pc[t] = "list_done"
  /\ listed.last_ts # None
  /\ \E rows \in Orders(Values(entries)) :
       LET r == ListRows(rows, listed.stream, listed.last_ts, listed.limit)
       IN listed' = [listed EXCEPT !.since_ts = listed.last_ts, !.sessions = r.sessions,
                                   !.last_ts = r.last_ts,
                                   !.got = listed.got \o listed.sessions]
  /\ UNCHANGED <<entries, fsVars, lockVars, write_count, now, taskVars, calls, histVars,
                 upVars, rid>>

\* The caller has consumed the result of list_sessions.
ListReturn(t) ==
  /\ pc[t] = "list_done"
  /\ pc' = [pc EXCEPT ![t] = "idle"]
  /\ listed' = NoListing
  /\ UNCHANGED <<entries, fsVars, lockVars, write_count, now, pend, wi, snap, ret, calls,
                 histVars, upVars, rid>>

\* The wall clock advances.
Tick ==
  /\ now < MaxTime
  /\ now' = now + 1
  /\ UNCHANGED <<entries, fsVars, lockVars, write_count, taskVars, listed, calls,
                 histVars, upVars, rid>>

\* ------------------------------------------------------------ inputs
\* Entries handed to upsert: stamped with the current time by the caller.
UpsertInputs ==
  {[record |-> k.record, stream |-> k.stream, end_ts |-> None, duration_ms |-> None,
    status |-> st, updated_at |-> now] : k \in KeyInputs, st \in {"Recording", "Acked"}}

\* `records` vectors of ack and delete_acked requests: empty, one key,
\* two keys, one key named twice.
Requests == {<<>>, <<K1>>, <<K2>>, <<K1, K2>>, <<K2, K2>>}

SinceInputs == {None, Some(0)}
LimitInputs == {0, 1}

\* One step of a call in progress.
Step(t) ==
  \/ AppendMutex(t)
  \/ AppendLockFile(t)
  \/ AppendWriteLine(t)
  \/ AppendFinish(t)
  \/ AckCollect(t)
  \/ CompactSnapshot(t)
  \/ CompactLockFile(t)
  \/ CompactWriteTmp(t)
  \/ CompactRemove(t)
  \/ CompactRename(t)

\* A call of a mutating operation starts.
Mutate(t) ==
  \/ \E e \in UpsertInputs : Upsert(t, e)
  \/ \E k \in KeyInputs, en \in EndTsInputs : UpdateStatus(t, k, "Completed", en, en)
  \/ \E recs \in Requests : Ack(t, recs)
  \/ \E recs \in Requests : DeleteAcked(t, recs)

List(t) ==
  \E stream \in {None} \cup {Some(x) : x \in StreamInputs}, since_ts \in SinceInputs,
     limit \in LimitInputs : ListSessions(t, stream, since_ts, limit)


\* ------------------------------------------------- crash and restart
\* The bytes a crash can leave of a write of s: any proper part of it.
TornPrefixes(s) == {SubSeq(s, 1, n) : n \in 0..(Len(s) - 1)}

\* The tasks whose `writeln!` loop has a line left to write.
Writing == {t \in Tasks : pc[t] = "append_write" /\ wi[t] < Len(pend[t])}

\* What a crash leaves at the log path: the file as it is, or with a part of
\* the line being written.
CrashFiles ==
  {file} \cup
  {[file EXCEPT !.data = @ \o p] :
     p \in UNION {TornPrefixes(ToJson(pend[t][wi[t] + 1]) \o <<NL>>) : t \in Writing}}

\* The entries handed to an append_entries that has not returned.
InFlightEntries ==
  UNION {{pend[t][i] : i \in 1..Len(pend[t])} :
           t \in {u \in Tasks : pc[u] \in {"append_mutex", "append_flock", "append_write"}}}

\* The process dies at any point and is started again: RecordingsIndex::load
\* reads the log, the counter restarts at 0, locks and calls are gone.
Crash ==
  /\ ~crash.seen
  /\ \E f \in CrashFiles :
       /\ file' = f
       /\ entries' = Load(f).map
       /\ crash' = [seen |-> TRUE, during |-> fileop.kind, pre |-> fileop.pre,
                    post |-> fileop.post, observed |-> f, inflight |-> InFlightEntries,
                    loaded |-> Load(f)]
  /\ write_count' = 0
  /\ write_lock' = NoTask
  /\ flock' = NoTask
  /\ pc' = [t \in Tasks |-> "idle"]
  /\ pend' = [t \in Tasks |-> <<>>]
  /\ wi' = [t \in Tasks |-> 0]
  /\ snap' = [t \in Tasks |-> <<>>]
  /\ ret' = [t \in Tasks |-> NoCall]
  /\ listed' = NoListing
  /\ fileop' = NoFileOp
  /\ del' = [k \in AllKeys |-> NoDel]
  /\ UNCHANGED <<tmp, now, calls, upVars, rid>>

\* ------------------------------------------------- a log found at startup
\* Log files an earlier run or an operator can have left: up to MaxLines
\* lines, each an entry line, an empty line, a torn line or a line whose
\* status is no RecordingStatus.
LogFiles ==
  LET E(k, st, ts) == [record |-> k.record, stream |-> k.stream, end_ts |-> None,
                       duration_ms |-> None, status |-> st, updated_at |-> ts]
      LineInputs == {ToJson(E(K1, "Recording", 0)), ToJson(E(K1, "Acked", 1)),
                     ToJson(E(K2, "Recording", 0)), <<>>, <<"{", "r1">>,
                     <<"{", "r2", "a", "null", "null", "Bogus", "0", "}">>}
      RECURSIVE Cat(_)
      Cat(ls) == IF ls = <<>> THEN <<>> ELSE Head(ls) \o <<NL>> \o Cat(Tail(ls))
  IN {[exists |-> TRUE, data |-> Cat(ls)] :
        ls \in UNION {[1..n -> LineInputs] : n \in 0..MaxLines}}

\* ------------------------------------------------- a legacy index file
\* The JSON array format load still reads: "[" entry ("," entry)* "]".
RECURSIVE ArrayItems(_)
ArrayItems(es) ==
  IF es = <<>> THEN <<>>
  ELSE IF Len(es) = 1 THEN ToJson(Head(es))
  ELSE ToJson(Head(es)) \o <<",">> \o ArrayItems(Tail(es))
ArrayJson(es) == <<"[">> \o ArrayItems(es) \o <<"]">>

LegacyEntry(k) == [record |-> k.record, stream |-> k.stream, end_ts |-> None,
                   duration_ms |-> None, status |-> "Recording", updated_at |-> 0]
LegacyArrays == {<<>>, <<LegacyEntry(K1)>>, <<LegacyEntry(K1), LegacyEntry(K2)>>}

\* RecordingsIndex::load of a file written in the array format.
LegacyInit ==
  /\ TaskInit
  /\ \E es \in LegacyArrays : file = [exists |-> TRUE, data |-> ArrayJson(es)]
  /\ entries = Load(file).map
  /\ tmp = Absent
  /\ write_count = 0
\* =========================================================== UploadManager
ObjectKeys == {"k1", "k2"}
\* The local artifact of an object key.
PathOf(k) == IF k = "k1" THEN "p1" ELSE "p2"
ConcurrencyInputs == {0, 2}

Max(a, b) == IF a > b THEN a ELSE b
Min(a, b) == IF a < b THEN a ELSE b

RECURSIVE Pow2(_)
Pow2(n) == IF n = 0 THEN 1 ELSE 2 * Pow2(n - 1)

\* A faulty delay without the cap; C17 must tell it from BackoffDelay.
BackoffUncapped(retry) == BASE_DELAY * Pow2(Min(retry, MAX_SHIFT))

\* backoff_ts: `(base * (1 << retry.min(10))).min(max).max(base)`
BackoffDelay(retry) == Max(Min(BASE_DELAY * Pow2(Min(retry, MAX_SHIFT)), MAX_DELAY), BASE_DELAY)
backoff_ts(retry) == nowMs + BackoffDelay(retry)

\* `Semaphore::new(cfg.concurrency.max(1))`
SemaphoreSize(c) == Max(c, 1)

\* ------------------------------------------------- the queue file
\* A faulty serialisation that writes every job as never retried; C7 must
\* tell it from ToJsonU.
ToJsonUFresh(e) == <<"{", e.id, e.object_key, e.local_path, "0", "0", "}">>

\* serde_json::to_string(&UploadEntry)
ToJsonU(e) == <<"{", e.id, e.object_key, e.local_path, ToString(e.retry_count),
                ToString(e.next_retry_at), "}">>

RetryDomain == 0..(MaxLoadedRetry + MaxRetries)
TimeDomain == {0} \cup {t + BackoffDelay(r) : t \in 0..(MaxTime + 1), r \in RetryDomain}
NatOf(t, D) == CHOOSE n \in D : ToString(n) = t

IsJsonUpload(l) ==
  /\ Len(l) = 7
  /\ l[1] = "{"
  /\ l[7] = "}"
  /\ \A i \in 2..6 : l[i] \notin {"{", "}", "[", "]", ",", NL}
  /\ \E n \in RetryDomain : ToString(n) = l[5]
  /\ \E n \in TimeDomain : ToString(n) = l[6]

FromJsonU(l) == [id |-> l[2], object_key |-> l[3], local_path |-> l[4],
                 retry_count |-> NatOf(l[5], RetryDomain),
                 next_retry_at |-> NatOf(l[6], TimeDomain)]

\* The loop of UploadManager::load: empty and malformed lines are skipped.
RECURSIVE LoadQueueLines(_, _)
LoadQueueLines(ls, m) ==
  IF ls = <<>> THEN m
  ELSE IF Head(ls) # <<>> /\ IsJsonUpload(Head(ls))
       THEN LoadQueueLines(Tail(ls), MapInsert(m, FromJsonU(Head(ls)).id, FromJsonU(Head(ls))))
       ELSE LoadQueueLines(Tail(ls), m)

\* UploadManager::load: the job map read from the queue file.
LoadQueue(f) == IF ~f.exists THEN EmptyMap ELSE LoadQueueLines(Lines(f.data), EmptyMap)

RECURSIVE QueueLines(_)
QueueLines(es) ==
  IF es = <<>> THEN <<>> ELSE ToJsonU(Head(es)) \o <<NL>> \o QueueLines(Tail(es))

\* ------------------------------------------------- the initial state
NoEntry == [id |-> "", object_key |-> "", local_path |-> "", retry_count |-> 0,
            next_retry_at |-> 0]
NoUCrash == [seen |-> FALSE, during |-> "none", pre |-> Absent, post |-> Absent,
             loaded |-> EmptyMap]
NoHist == [uploaded |-> {}, attempted |-> {}, enq |-> 0, ids |-> {}, again |-> {},
           base |-> 0, op |-> NoFileOp, crash |-> NoUCrash]

\* The caller of enqueue, between two calls.
IdleCaller == [kind |-> "caller", pc |-> "idle", ent |-> NoEntry, snap |-> <<>>,
               mode |-> "none"]
\* A task spawned by process_queue, about to run try_upload(entry).
Spawned(entry) == [kind |-> "attempt", pc |-> "presign", ent |-> entry, snap |-> <<>>,
                   mode |-> "none"]

Running == BagToSet(procs)
\* The upload attempts in flight.
InFlight ==
  BagCardinality([r \in {x \in Running : x.kind = "attempt"} |-> CopiesIn(r, procs)])

\* UploadManager::load with no queue file.
UploadInit ==
  /\ q_entries = EmptyMap
  /\ q_file = Absent
  /\ q_tmp = Absent
  /\ q_write_lock = FALSE
  /\ concurrency \in ConcurrencyInputs
  /\ permits = SemaphoreSize(concurrency)
  /\ nowMs = 0
  /\ poll = [pc |-> "sleep", batch |-> <<>>]
  /\ procs = SetToBag({IdleCaller})
  /\ localfiles = {}
  /\ uhist = NoHist

\* UploadManager::load on a queue file that holds one job, left by an
\* earlier run after `base` failed attempts; its artifact is on disk. The
\* index has no file.
LoadedInit ==
  \E base \in 0..MaxLoadedRetry :
    LET job == [id |-> "k1:0", object_key |-> "k1", local_path |-> PathOf("k1"),
                retry_count |-> base, next_retry_at |-> 0]
    IN /\ IndexInit
       /\ ~file.exists
       /\ q_file = [exists |-> TRUE, data |-> QueueLines(<<job>>)]
       /\ q_entries = LoadQueue(q_file)
       /\ q_tmp = Absent
       /\ q_write_lock = FALSE
       /\ concurrency \in ConcurrencyInputs
       /\ permits = SemaphoreSize(concurrency)
       /\ nowMs = 0
       /\ poll = [pc |-> "sleep", batch |-> <<>>]
       /\ procs = SetToBag({IdleCaller})
       /\ localfiles = {job.local_path}
       /\ uhist = [NoHist EXCEPT !.base = base, !.ids = {job.id}]

\* Process r takes a step and becomes r2.
Becomes(r, r2) == procs' = (procs (-) SetToBag({r})) (+) SetToBag({r2})
\* The spawned task r ends.
Ends(r) == procs' = procs (-) SetToBag({r})

\* ------------------------------------------------- enqueue
\* enqueue: build the entry, insert it, then persist the whole map. The
\* artifact at local_path has been written by the caller.
Enqueue(r, object_key, local_path) ==
  LET entry == [id |-> object_key \o ":" \o ToString(nowMs), object_key |-> object_key,
                local_path |-> local_path, retry_count |-> 0, next_retry_at |-> 0]
  IN /\ r = IdleCaller
     /\ uhist.enq < MaxEnqueues
     /\ q_entries' = MapInsert(q_entries, entry.id, entry)
     /\ localfiles' = localfiles \cup {local_path}
     /\ Becomes(r, [r EXCEPT !.pc = "persist_lock", !.ent = entry, !.mode = "enqueue"])
     /\ uhist' = [uhist EXCEPT !.enq = @ + 1, !.ids = @ \cup {entry.id},
                               !.again = IF entry.id \in uhist.ids THEN @ \cup {entry.id}
                                         ELSE @]
     /\ UNCHANGED <<q_file, q_tmp, q_write_lock, permits, concurrency, nowMs, poll, idxVars, rid>>

\* ------------------------------------------------- persist_queue
\* `let _guard = self.write_lock.lock().await`
PersistLock(r) ==
  /\ r.pc = "persist_lock"
  /\ ~q_write_lock
  /\ q_write_lock' = TRUE
  /\ Becomes(r, [r EXCEPT !.pc = "persist_snap"])
  /\ uhist' = [uhist EXCEPT !.op = [kind |-> "persist", pre |-> q_file, post |-> q_file]]
  /\ UNCHANGED <<q_entries, q_file, q_tmp, permits, concurrency, nowMs, poll, localfiles,
                 idxVars, rid>>

\* The snapshot of the map, in the order the map yields its values.
PersistSnapshot(r) ==
  /\ r.pc = "persist_snap"
  /\ \E o \in Orders(Values(q_entries)) :
       /\ Becomes(r, [r EXCEPT !.pc = "persist_tmp", !.snap = o])
       /\ uhist' = [uhist EXCEPT !.op.post = [exists |-> TRUE, data |-> QueueLines(o)]]
  /\ UNCHANGED <<q_entries, q_file, q_tmp, q_write_lock, permits, concurrency, nowMs, poll,
                 localfiles, idxVars, rid>>

\* `tokio::fs::write(&tmp_path, contents)`
PersistWriteTmp(r) ==
  /\ r.pc = "persist_tmp"
  /\ q_tmp' = [exists |-> TRUE, data |-> QueueLines(r.snap)]
  /\ Becomes(r, [r EXCEPT !.pc = "persist_remove"])
  /\ UNCHANGED <<q_entries, q_file, q_write_lock, permits, concurrency, nowMs, poll,
                 localfiles, uhist, idxVars, rid>>

\* `if metadata(&path).is_ok() { let _ = remove_file(&path); }`
PersistRemove(r) ==
  /\ r.pc = "persist_remove"
  /\ q_file' = IF q_file.exists THEN Absent ELSE q_file
  /\ Becomes(r, [r EXCEPT !.pc = "persist_rename"])
  /\ UNCHANGED <<q_entries, q_tmp, q_write_lock, permits, concurrency, nowMs, poll,
                 localfiles, uhist, idxVars, rid>>

\* rename(tmp, path); persist_queue returns and with it the caller: enqueue
\* to its caller, a spawned attempt ends and drops its permit.
PersistRename(r) ==
  /\ r.pc = "persist_rename"
  /\ q_file' = q_tmp
  /\ q_tmp' = Absent
  /\ q_write_lock' = FALSE
  /\ IF r.kind = "caller" THEN Becomes(r, IdleCaller) /\ UNCHANGED permits
     ELSE Ends(r) /\ permits' = permits + 1
  /\ uhist' = [uhist EXCEPT !.op = NoFileOp,
                            !.uploaded = IF r.mode = "success" THEN @ \cup {r.ent.id}
                                         ELSE @]
  /\ UNCHANGED <<q_entries, concurrency, nowMs, poll, localfiles, idxVars, rid>>

\* ------------------------------------------------- the background loop
\* The entries process_queue finds due.
Due(m, t) == {e \in Values(m) : e.next_retry_at <= t}

\* process_queue after the sleep: collect the due entries.
PollScan ==
  /\ poll.pc = "sleep"
  /\ \E o \in Orders(Due(q_entries, nowMs)) :
       poll' = [pc |-> IF o = <<>> THEN "sleep" ELSE "dispatch", batch |-> o]
  /\ UNCHANGED <<q_entries, q_file, q_tmp, q_write_lock, permits, concurrency, nowMs,
                 procs, localfiles, uhist, idxVars, rid>>

\* A faulty dispatch that does not wait for a permit; C6 must tell it from
\* AcquirePermit.
AcquireWithoutPermit == TRUE

\* `self.semaphore.acquire().await` can return
AcquirePermit == permits > 0

\* One turn of the dispatch loop: acquire a permit, spawn try_upload.
PollDispatch ==
  /\ poll.pc = "dispatch"
  /\ poll.batch # <<>>
  /\ AcquirePermit
  /\ permits' = permits - 1
  /\ procs' = procs (+) SetToBag({Spawned(Head(poll.batch))})
  /\ poll' = [pc |-> IF Tail(poll.batch) = <<>> THEN "sleep" ELSE "dispatch",
              batch |-> Tail(poll.batch)]
  /\ uhist' = [uhist EXCEPT !.attempted = @ \cup {Head(poll.batch).id}]
  /\ UNCHANGED <<q_entries, q_file, q_tmp, q_write_lock, concurrency, nowMs, localfiles,
                 idxVars, rid>>

\* ------------------------------------------------- try_upload
\* A faulty error path that counts the error as a failed upload; C24 must
\* tell it from AttemptError.
AttemptErrorCounted(r) ==
  /\ Ends(r)
  /\ permits' = permits + 1
  /\ q_entries' = MapInsert(q_entries, r.ent.id, [r.ent EXCEPT !.retry_count = @ + 1])
  /\ UNCHANGED <<q_file, q_tmp, q_write_lock, concurrency, nowMs, poll, localfiles, uhist,
                 idxVars, rid>>

\* A faulty error path that ends the task without dropping its permit;
\* C25 must tell it from AttemptError.
AttemptErrorKeepsPermit(r) ==
  /\ Ends(r)
  /\ UNCHANGED <<q_entries, q_file, q_tmp, q_write_lock, permits, concurrency, nowMs, poll,
                 localfiles, uhist, idxVars, rid>>

\* The attempt returns an error: the spawned task logs it, ends and drops
\* its permit.
AttemptError(r) ==
  /\ Ends(r)
  /\ permits' = permits + 1
  /\ UNCHANGED <<q_entries, q_file, q_tmp, q_write_lock, concurrency, nowMs, poll,
                 localfiles, uhist, idxVars, rid>>

\* presign_put succeeds
PresignOk(r) ==
  /\ r.pc = "presign"
  /\ Becomes(r, [r EXCEPT !.pc = "read"])
  /\ UNCHANGED <<q_entries, q_file, q_tmp, q_write_lock, permits, concurrency, nowMs, poll,
                 localfiles, uhist, idxVars, rid>>

\* presign_put fails (request error or non-success status)
PresignFail(r) ==
  /\ r.pc = "presign"
  /\ AttemptError(r)

\* `tokio::fs::read(&entry.local_path)`
ReadLocal(r) ==
  /\ r.pc = "read"
  /\ IF r.ent.local_path \in localfiles
     THEN /\ Becomes(r, [r EXCEPT !.pc = "put"])
          /\ UNCHANGED <<q_entries, q_file, q_tmp, q_write_lock, permits, concurrency,
                         nowMs, poll, localfiles, uhist, idxVars, rid>>
     ELSE AttemptError(r)

\* The PUT fails below HTTP: `send().await?`
PutNetworkError(r) ==
  /\ r.pc = "put"
  /\ AttemptError(r)

\* The PUT returns a non-success status: retry_count += 1, backoff, update_entry.
PutFailure(r) ==
  LET entry == [r.ent EXCEPT !.retry_count = @ + 1,
                             !.next_retry_at = backoff_ts(r.ent.retry_count + 1)]
  IN /\ r.pc = "put"
     /\ r.ent.retry_count < uhist.base + MaxRetries
     /\ q_entries' = MapInsert(q_entries, entry.id, entry)
     /\ Becomes(r, [r EXCEPT !.pc = "persist_lock", !.ent = entry, !.mode = "failure"])
     /\ UNCHANGED <<q_file, q_tmp, q_write_lock, permits, concurrency, nowMs, poll,
                    localfiles, uhist, idxVars, rid>>

\* The PUT returns a success status: the local file is removed (best effort).
PutSuccess(r) ==
  /\ r.pc = "put"
  /\ localfiles' = localfiles \ {r.ent.local_path}
  /\ Becomes(r, [r EXCEPT !.pc = "remove_entry"])
  /\ UNCHANGED <<q_entries, q_file, q_tmp, q_write_lock, permits, concurrency, nowMs, poll,
                 uhist, idxVars, rid>>

\* remove_entry: the job leaves the map, then persist_queue.
RemoveEntry(r) ==
  /\ r.pc = "remove_entry"
  /\ q_entries' = MapRemove(q_entries, r.ent.id)
  /\ Becomes(r, [r EXCEPT !.pc = "persist_lock", !.mode = "success"])
  /\ UNCHANGED <<q_file, q_tmp, q_write_lock, permits, concurrency, nowMs, poll,
                 localfiles, uhist, idxVars, rid>>

\* The wall clock advances.
TickMs ==
  /\ nowMs < MaxTime
  /\ nowMs' = nowMs + 1
  /\ UNCHANGED <<q_entries, q_file, q_tmp, q_write_lock, permits, concurrency, poll, procs,
                 localfiles, uhist, idxVars, rid>>

\* The wall clock reaches the next retry time of a waiting job.
TimePasses ==
  LET waiting == {e.next_retry_at : e \in {x \in Values(q_entries) : x.next_retry_at > nowMs}}
  IN /\ waiting # {}
     /\ nowMs' = CHOOSE t \in waiting : \A u \in waiting : t <= u
     /\ UNCHANGED <<q_entries, q_file, q_tmp, q_write_lock, permits, concurrency, poll,
                    procs, localfiles, uhist, idxVars, rid>>

Persist(r) ==
  \/ PersistLock(r)
  \/ PersistSnapshot(r)
  \/ PersistWriteTmp(r)
  \/ PersistRemove(r)
  \/ PersistRename(r)

Attempt(r) ==
  \/ PresignOk(r)
  \/ PresignFail(r)
  \/ ReadLocal(r)
  \/ PutNetworkError(r)
  \/ PutFailure(r)
  \/ PutSuccess(r)
  \/ RemoveEntry(r)

\* The process dies at any point and is started again: UploadManager::load
\* reads the queue file; tasks, locks and permits start afresh.
UCrash ==
  /\ ~uhist.crash.seen
  /\ q_entries' = LoadQueue(q_file)
  /\ uhist' = [uhist EXCEPT !.crash = [seen |-> TRUE, during |-> uhist.op.kind,
                                       pre |-> uhist.op.pre, post |-> uhist.op.post,
                                       loaded |-> LoadQueue(q_file)],
                            !.op = NoFileOp]
  /\ q_write_lock' = FALSE
  /\ permits' = SemaphoreSize(concurrency)
  /\ poll' = [pc |-> "sleep", batch |-> <<>>]
  /\ procs' = SetToBag({IdleCaller})
  /\ UNCHANGED <<q_file, q_tmp, concurrency, nowMs, localfiles, idxVars, rid>>


\* ============================================================= RecordingId
\* Strings are sequences of characters here, so that format!, split and
\* parse do their work on the text.

\* Display of an i64: decimal digits, a '-' before a negative number.
FormatI64(n) ==
  LET RECURSIVE Digits(_)
      Digits(m) == IF m < 10 THEN <<ToString(m)>>
                   ELSE Append(Digits(m \div 10), ToString(m % 10))
  IN IF n < 0 THEN <<"-">> \o Digits(-n) ELSE Digits(n)

\* str::parse::<i64>().ok(): an optional sign, then one or more decimal
\* digits. (The texts met here are too short to overflow an i64.)
ParseI64(s) ==
  LET IsDigit(c) == \E d \in 0..9 : ToString(d) = c
      DigitOf(c) == CHOOSE d \in 0..9 : ToString(d) = c
      signed == s # <<>> /\ Head(s) \in {"-", "+"}
      digits == IF signed THEN Tail(s) ELSE s
      RECURSIVE Value(_, _)
      Value(ds, acc) == IF ds = <<>> THEN acc
                        ELSE Value(Tail(ds), acc * 10 + DigitOf(Head(ds)))
  IN IF digits = <<>> \/ \E i \in 1..Len(digits) : ~IsDigit(digits[i]) THEN None
     ELSE IF signed /\ Head(s) = "-" THEN Some(-Value(digits, 0))
     ELSE Some(Value(digits, 0))

\* str::split(c).collect(): the text between the separators, empty parts
\* included.
Split(s, c) ==
  LET RECURSIVE Parts(_, _)
      Parts(rest, cur) ==
        IF rest = <<>> THEN <<cur>>
        ELSE IF Head(rest) = c THEN <<cur>> \o Parts(Tail(rest), <<>>)
        ELSE Parts(Tail(rest), Append(cur, Head(rest)))
  IN Parts(s, <<>>)

\* `format!("{}/{}", self.stream, self.timestamp)`
path_prefix(id) == id.stream \o <<"/">> \o FormatI64(id.timestamp)

\* RecordingId::from_path
from_path(path) ==
  LET parts == Split(path, "/")
  IN IF Len(parts) >= 2
     THEN IF ParseI64(parts[2]) = None THEN None
          ELSE Some([stream |-> parts[1], timestamp |-> ParseI64(parts[2])[1]])
     ELSE None

\* RecordingId::with_timestamp(stream, timestamp)
WithTimestamp ==
  LET Chars == {"a", "1", "/"}
      StreamNames == UNION {[1..n -> Chars] : n \in 0..MaxStreamLen}
      Timestamps == {-12, 0, 7, 1729411200}
  IN /\ rid.phase = "none"
     /\ \E stream \in StreamNames, timestamp \in Timestamps :
          rid' = [NoRid EXCEPT !.phase = "id",
                               !.id = [stream |-> stream, timestamp |-> timestamp]]
     /\ UNCHANGED <<idxVars, upVars>>

\* id.path_prefix(), alone or with further segments appended by the caller.
PathPrefix ==
  /\ rid.phase = "id"
  /\ \E extra \in {<<>>, <<"/", "m">>, <<"/", "1", "/", "m">>} :
       rid' = [rid EXCEPT !.phase = "path", !.path = path_prefix(rid.id) \o extra]
  /\ UNCHANGED <<idxVars, upVars>>

\* RecordingId::from_path(path)
FromPath ==
  /\ rid.phase = "path"
  /\ rid' = [rid EXCEPT !.phase = "parsed", !.parsed = from_path(rid.path)]
  /\ UNCHANGED <<idxVars, upVars>>
\* ========================================================= specifications
\* The index alone: the upload manager does not move.
Init == IndexInit /\ UploadInit /\ concurrency = 0

\* Calls executed one after another by a single caller.
NextSeq == Mutate(1) \/ Step(1) \/ Tick
SpecSeq == Init /\ [][NextSeq]_vars

\* The same, with list_sessions among the calls.
NextList == Mutate(1) \/ Step(1) \/ Tick \/ List(1) \/ ListReturn(1)
SpecList == Init /\ [][NextList]_vars

\* One caller that also polls list_sessions with the returned cursor.
SpecPoll ==
  Init /\ [][Mutate(1) \/ Step(1) \/ Tick \/ List(1) \/ PollAgain(1) \/ ListReturn(1)]_vars

\* The index after COMPACT_EVERY - 1 appends since its start on no file:
\* one upsert of K1 and then upserts of K2, all lines still in the log.
GrownInit ==
  LET E(k) == [record |-> k.record, stream |-> k.stream, end_ts |-> None,
               duration_ms |-> None, status |-> "Recording", updated_at |-> 0]
      Repeat(l, n) == [i \in 1..(n * Len(l)) |-> l[((i - 1) % Len(l)) + 1]]
  IN /\ TaskInit
     /\ UploadInit
     /\ concurrency = 0
     /\ entries = MapInsert(MapInsert(EmptyMap, Key(E(K1)), E(K1)), Key(E(K2)), E(K2))
     /\ file = [exists |-> TRUE,
                data |-> ToJson(E(K1)) \o <<NL>>
                           \o Repeat(ToJson(E(K2)) \o <<NL>>, COMPACT_EVERY - 2)]
     /\ tmp = Absent
     /\ write_count = COMPACT_EVERY - 1
SpecGrow == GrownInit /\ [][NextSeq]_vars

\* Concurrent callers of the index.
Next == \E t \in Tasks : Mutate(t) \/ Step(t)
Spec == Init /\ [][Next]_vars

\* Concurrent callers of the index, list_sessions among the calls, under a
\* fair scheduler: the runtime polls every task that can make a step (weak
\* fairness on each task's next step, lock acquisitions included), and no
\* file operation fails (the index actions model the success paths).
SpecFair ==
  /\ Init
  /\ [][\E t \in Tasks : Mutate(t) \/ Step(t) \/ List(t) \/ ListReturn(t)]_vars
  /\ \A t \in Tasks : WF_vars(Step(t)) /\ WF_vars(ListReturn(t))

\* The upload manager alone.
UploadOnlyInit == IndexInit /\ ~file.exists /\ UploadInit
NextUpload ==
  \/ \E r \in Running, k \in ObjectKeys : Enqueue(r, k, PathOf(k))
  \/ \E r \in Running : Persist(r)
  \/ \E r \in Running : Attempt(r)
  \/ PollScan
  \/ PollDispatch
  \/ TickMs
SpecUpload == UploadOnlyInit /\ [][NextUpload]_vars


\* The index with one caller and a crash of the process.
NextCrash == Mutate(1) \/ Step(1) \/ Tick \/ Crash
SpecCrash == Init /\ [][NextCrash]_vars

\* The index started on a legacy array file.
InitLegacy == LegacyInit /\ UploadInit /\ concurrency = 0
SpecLegacy == InitLegacy /\ [][NextSeq]_vars

\* The process has been started on such a file: load has read it.
LoadInit ==
  /\ TaskInit
  /\ UploadInit
  /\ concurrency = 0
  /\ file \in LogFiles
  /\ entries = Load(file).map
  /\ tmp = Absent
  /\ write_count = 0

\* The upload manager draining a queue loaded at startup; no enqueue.
SpecBackoff ==
  /\ LoadedInit
  /\ [][\/ \E r \in Running : Persist(r)
        \/ \E r \in Running : Attempt(r)
        \/ PollScan
        \/ PollDispatch
        \/ TickMs]_vars

\* The same under fair scheduling: the loop of run() keeps polling, every
\* spawned task and every persist_queue keeps running, the clock reaches
\* every retry time, and presign and PUT requests cannot fail for ever.
SpecLive ==
  /\ LoadedInit
  /\ [][\/ \E r \in Running : Persist(r)
        \/ \E r \in Running : Attempt(r)
        \/ PollScan
        \/ PollDispatch
        \/ TimePasses]_vars
  /\ WF_vars(PollScan)
  /\ WF_vars(PollDispatch)
  /\ WF_vars(TimePasses)
  /\ WF_vars(\E r \in Running : Persist(r))
  /\ WF_vars(\E r \in Running : ReadLocal(r))
  /\ WF_vars(\E r \in Running : RemoveEntry(r))
  /\ SF_vars(\E r \in Running : PresignOk(r))
  /\ SF_vars(\E r \in Running : PutSuccess(r))

\* A RecordingId is built, turned into a path and read back.
SpecRid == Init /\ [][WithTimestamp \/ PathPrefix \/ FromPath]_vars

\* Restarts of the process on the log files of LogFiles.
SpecLoad == LoadInit /\ [][Crash]_vars

\* enqueue and persist_queue with a crash of the process.
NextUploadCrash ==
  \/ \E r \in Running, k \in ObjectKeys : Enqueue(r, k, PathOf(k))
  \/ \E r \in Running : Persist(r)
  \/ TickMs
  \/ UCrash
SpecUploadCrash == UploadOnlyInit /\ [][NextUploadCrash]_vars

\* ================================================================ claims
\* C1: calls of upsert and update_status executed one after another: after
\* each call has returned, load of the log file yields exactly the
\* in-memory map.
C1_ReloadEqualsMap ==
  (pc[1] = "idle" /\ ret[1].done /\ ret[1].op \in {"upsert", "update_status"})
    => Load(file) = LoadOk(entries)

\* C2: at every step of a compaction, and after a crash at that step, a
\* reader of the log path loads the pre-compaction or the post-compaction
\* content.
C2_CompactionAtomic ==
  /\ fileop.kind = "compact" => Load(file) \in {Load(fileop.pre), Load(fileop.post)}
  /\ (crash.seen /\ crash.during = "compact")
       => crash.loaded \in {Load(crash.pre), Load(crash.post)}

\* C3: a restart at any step of persist_queue reloads the queue that was on
\* disk before the rewrite or the queue being written.
C3_RestartSeesWholeQueue ==
  (uhist.crash.seen /\ uhist.crash.during = "persist")
    => uhist.crash.loaded \in {LoadQueue(uhist.crash.pre), LoadQueue(uhist.crash.post)}

\* C4: after a crash at any point of an append, load succeeds and its index
\* holds every key the log held before the append, with the entry it had or
\* with the entry being appended.
C4_AppendCrashKeepsHistory ==
  (crash.seen /\ crash.during = "append")
    => /\ crash.loaded.ok
       /\ \A k \in DOMAIN Load(crash.pre).map :
            /\ k \in DOMAIN crash.loaded.map
            /\ crash.loaded.map[k] \in {Load(crash.pre).map[k]} \cup crash.inflight

\* C5: a job whose upload attempt got a success response and returned is in
\* neither the in-memory map nor the queue file, now and ever after (jobs
\* whose id was enqueued a second time are left out).
C5_UploadedNeverReappears ==
  \A id \in uhist.uploaded \ uhist.again : id \notin DOMAIN q_entries /\ id \notin DOMAIN LoadQueue(q_file)

\* C6: the number of upload attempts in flight never exceeds
\* max(cfg.concurrency, 1).
C6_ConcurrencyBound == InFlight <= Max(concurrency, 1)

\* Two attempts are in flight with concurrency 2 while the loop holds a
\* further due entry that waits for a permit.
C6_Witness ==
  /\ concurrency = 2
  /\ InFlight = 2
  /\ poll.pc = "dispatch"
  /\ permits = 0

Persisting ==
  \E r \in Running : r.pc \in {"persist_lock", "persist_snap", "persist_tmp",
                              "persist_remove", "persist_rename"}

\* C7: once every persist_queue call has returned, loading the queue file
\* yields exactly the in-memory job map; a job enqueued and not yet
\* attempted is reloaded with retry_count 0 and next_retry_at 0.
C7_ReloadEqualsQueue ==
  ~Persisting
    => /\ LoadQueue(q_file) = q_entries
       /\ \A id \in DOMAIN q_entries :
            id \notin uhist.attempted
              => /\ id \in DOMAIN LoadQueue(q_file)
                 /\ LoadQueue(q_file)[id].retry_count = 0
                 /\ LoadQueue(q_file)[id].next_retry_at = 0

\* No persist_queue is running, one job has been uploaded, one has failed
\* and waits for its retry, and a job enqueued since then was never attempted.
C7_Witness ==
  /\ ~Persisting
  /\ uhist.enq = MaxEnqueues
  /\ \E id \in DOMAIN q_entries : id \notin uhist.attempted
  /\ \/ uhist.uploaded # {}
     \/ \E id \in DOMAIN q_entries : q_entries[id].retry_count > 0

\* C8: once delete_acked has removed key k and returned, and no upsert of k
\* was pending or came later, a load of the log file never contains k.
C8_DeletedStaysDeleted ==
  \A k \in AllKeys : del[k].returned => k \notin DOMAIN Load(file).map

\* The step in which task t calls delete_acked.
DeleteCalled(t) ==
  /\ calls' = calls + 1
  /\ ret'[t].id = calls'
  /\ ret'[t].op = "delete_acked"

\* The request names only keys that are absent or not Acked.
NamesNoAcked(recs) ==
  \A i \in 1..Len(recs) :
    LET key == recs[i].stream \o "/" \o recs[i].record
    IN key \notin DOMAIN entries \/ entries[key].status # "Acked"

C9_Step ==
  \A t \in Tasks :
    DeleteCalled(t)
      => /\ \A k \in DOMAIN entries :
              entries[k].status # "Acked" => (k \in DOMAIN entries' /\ entries'[k] = entries[k])
         /\ NamesNoAcked(ret'[t].req)
              => /\ entries' = entries
                 /\ file' = file
                 /\ tmp' = tmp
                 /\ pc'[t] = "idle"
                 /\ ret'[t].done
                 /\ ret'[t].count = 0

\* C9: delete_acked removes no entry whose status is not Acked; a call that
\* names only absent or non-Acked keys leaves the map and the files
\* unchanged, starts no compaction and returns 0.
C9_DeleteGuard == [][C9_Step]_vars

\* A delete_acked call naming a present key that is not Acked has returned 0.
C9_Witness ==
  \E t \in Tasks :
    /\ ret[t].op = "delete_acked"
    /\ ret[t].done
    /\ ret[t].count = 0
    /\ \E i \in 1..Len(ret[t].req) :
         LET key == ret[t].req[i].stream \o "/" \o ret[t].req[i].record
         IN key \in DOMAIN entries /\ entries[key].status # "Acked"

\* C10: no Acked entry appears in a result of list_sessions, for every
\* stream filter, since_ts filter and limit, in every reachable state.
C10_AckedNeverListed ==
  /\ \A i \in 1..Len(listed.sessions) : listed.sessions[i].status # "Acked"
  /\ \A rows \in Orders(Values(entries)), since_ts \in SinceInputs, limit \in LimitInputs,
        stream \in {None} \cup {Some(x) : x \in StreamInputs} :
       LET r == ListRows(rows, stream, since_ts, limit)
       IN \A i \in 1..Len(r.sessions) : r.sessions[i].status # "Acked"

\* list_sessions without filters returned a session while the map holds an
\* Acked entry.
C10_Witness ==
  /\ listed.valid
  /\ listed.stream = None
  /\ listed.since_ts = None
  /\ listed.sessions # <<>>
  /\ \E k \in DOMAIN entries : entries[k].status = "Acked"

\* The entries list_sessions has to return for the filters: present, not
\* Acked, of the stream asked for and updated after since_ts.
Matching(stream, since_ts) ==
  {e \in Values(entries) :
     /\ e.status # "Acked"
     /\ stream = None \/ e.stream = stream[1]
     /\ since_ts = None \/ e.updated_at > since_ts[1]}

DistinctUpdatedAt(S) == \A a, b \in S : a # b => a.updated_at # b.updated_at

\* The result r is the page of at most k of the entries S, oldest first.
IsPage(r, S, k) ==
  LET n == IF Cardinality(S) < k THEN Cardinality(S) ELSE k
      Older(e) == Cardinality({x \in S : x.updated_at < e.updated_at})
  IN /\ Len(r.sessions) = n
     /\ \A i \in 1..n :
          \E e \in S : /\ Older(e) = i - 1
                       /\ r.sessions[i] = [id |-> Some(e.record), stream |-> e.stream,
                                           end_ts |-> e.end_ts,
                                           duration_ms |-> e.duration_ms,
                                           status |-> e.status]
     /\ r.last_ts = IF n = 0 THEN None
                    ELSE Some(CHOOSE m \in {e.updated_at : e \in S} :
                                Cardinality({x \in S : x.updated_at < m}) = n - 1)

\* C11: with N matching non-Acked entries of pairwise distinct updated_at,
\* list_sessions(limit = k), k = 0 read as 100, returns the min(N, k)
\* entries of smallest updated_at in ascending order, and the cursor is the
\* largest updated_at returned (none for an empty result).
C11_Pagination ==
  /\ \A rows \in Orders(Values(entries)), since_ts \in SinceInputs, limit \in LimitInputs,
        stream \in {None} \cup {Some(x) : x \in StreamInputs} :
       DistinctUpdatedAt(Matching(stream, since_ts))
         => IsPage(ListRows(rows, stream, since_ts, limit), Matching(stream, since_ts),
                   IF limit = 0 THEN 100 ELSE limit)
  /\ (listed.valid /\ DistinctUpdatedAt(Matching(listed.stream, listed.since_ts)))
       => IsPage(listed, Matching(listed.stream, listed.since_ts),
                 IF listed.limit = 0 THEN 100 ELSE listed.limit)

\* list_sessions(limit = 1) returned one session of two matching entries
\* with distinct updated_at.
C11_Witness ==
  /\ listed.valid
  /\ listed.limit = 1
  /\ Cardinality(Matching(listed.stream, listed.since_ts)) = 2
  /\ DistinctUpdatedAt(Matching(listed.stream, listed.since_ts))
  /\ Len(listed.sessions) = 1

\* The step in which task t calls operation op.
Called(t, op) ==
  /\ calls' = calls + 1
  /\ ret'[t].id = calls'
  /\ ret'[t].op = op

\* The keys a request names.
Named(recs) == {recs[i].stream \o "/" \o recs[i].record : i \in 1..Len(recs)}

C12_Step ==
  \A t \in Tasks :
    LET hit == Named(ret'[t].req) \cap DOMAIN entries
    IN /\ Called(t, "ack")
            => /\ DOMAIN entries' = DOMAIN entries
               /\ \A k \in hit : entries'[k] = [entries[k] EXCEPT !.status = "Acked",
                                                                  !.updated_at = now]
               /\ \A k \in (DOMAIN entries) \ hit : entries'[k] = entries[k]
               /\ ret'[t].count = Cardinality(hit)
       /\ (ret[t].op = "ack" /\ pc[t] = "ack_collect" /\ pc'[t] # "ack_collect")
            => /\ Len(pend'[t]) = Cardinality(hit)
               /\ {pend'[t][i] : i \in 1..Len(pend'[t])} = {entries[k] : k \in hit}
               /\ \A i \in 1..Len(pend'[t]) : pend'[t][i].status = "Acked"
       /\ (ret[t].op = "ack" /\ pc[t] = "append_write" /\ wi'[t] = wi[t] + 1)
            => file'.data = file.data \o ToJson(pend[t][wi'[t]]) \o <<NL>>

\* C12: ack sets Acked exactly the named keys that are present, leaves the
\* other entries unchanged, appends exactly the entries it mutated, each
\* Acked, once, and returns the number of entries it acked.
C12_AckExact == [][C12_Step]_vars

C13_Step ==
  \A t \in Tasks :
    ( /\ \/ Called(t, "update_status")
         \/ Called(t, "ack")
         \/ Called(t, "delete_acked")
      /\ Named(ret'[t].req) \cap DOMAIN entries = {} )
      => /\ ret'[t].done
         /\ ret'[t].count = 0
         /\ pc'[t] = "idle"
         /\ entries' = entries
         /\ file' = file
         /\ tmp' = tmp
         /\ write_count' = write_count

\* C13: update_status, ack and delete_acked on keys that are not in the map
\* return at once (count 0) and leave the map, the log file and the write
\* counter unchanged.
C13_AbsentKeyNoOp == [][C13_Step]_vars

\* A call naming only an absent key has returned while the map holds
\* another entry and the log its line.
C13_Witness ==
  \E t \in Tasks :
    /\ ret[t].op \in {"update_status", "ack", "delete_acked"}
    /\ ret[t].id = calls
    /\ ret[t].done
    /\ ret[t].req # <<>>
    /\ Named(ret[t].req) \cap DOMAIN entries = {}
    /\ entries # EmptyMap
    /\ file.data # <<>>

\* The non-empty lines of the log read by the load after the restart.
LogLines == SelectSeq(Lines(crash.observed.data), LAMBDA l : l # <<>>)

\* C14: for a log made of well-formed entry lines, load yields the map
\* whose keys are the keys stream/record occurring in the log and whose
\* value for a key is the entry of the last line with that key.
C14_LoadLastWins ==
  (crash.seen /\ \A i \in 1..Len(LogLines) : IsJsonEntry(LogLines[i]))
    => /\ crash.loaded.ok
       /\ entries = crash.loaded.map
       /\ DOMAIN entries =
            {LogLines[i][3] \o "/" \o LogLines[i][2] : i \in 1..Len(LogLines)}
       /\ \A i \in 1..Len(LogLines) :
            LET key == LogLines[i][3] \o "/" \o LogLines[i][2]
            IN (\A j \in (i + 1)..Len(LogLines) :
                  LogLines[j][3] \o "/" \o LogLines[j][2] # key)
                 => entries[key] = FromJson(LogLines[i])

\* The log read at the restart holds two different lines of one key and a
\* line of another key.
C14_Witness ==
  /\ crash.seen
  /\ crash.loaded.ok
  /\ Cardinality(DOMAIN entries) = 2
  /\ \E i, j \in 1..Len(LogLines) :
       i < j /\ LogLines[i] # LogLines[j] /\ LogLines[i][2] = LogLines[j][2]
             /\ LogLines[i][3] = LogLines[j][3]

\* C15: if a non-empty line of a line-format log does not parse as an
\* entry, load returns an error and builds no index, not a partial map.
C15_MalformedLineIsFatal ==
  (crash.seen /\ \E i \in 1..Len(LogLines) : ~IsJsonEntry(LogLines[i]))
    => /\ ~crash.loaded.ok
       /\ crash.loaded.map = EmptyMap
       /\ entries = EmptyMap
       /\ Down

\* The log read at the restart holds an entry line followed by a line that
\* does not parse.
C15_Witness ==
  /\ crash.seen
  /\ Len(LogLines) >= 2
  /\ IsJsonEntry(LogLines[1])
  /\ ~IsJsonEntry(LogLines[Len(LogLines)])
  /\ ~crash.loaded.ok

C16_Step ==
  \A t \in Tasks :
    /\ (pc[t] = "compact_snap" /\ pc'[t] = "compact_flock")
         => /\ Len(snap'[t]) = Cardinality(DOMAIN entries)
            /\ \A i \in 1..Len(snap'[t]) :
                 LET key == snap'[t][i].stream \o "/" \o snap'[t][i].record
                 IN key \in DOMAIN entries /\ snap'[t][i] = entries[key]
            /\ \A i, j \in 1..Len(snap'[t]) :
                 i < j => \/ StrRank(snap'[t][i].stream) < StrRank(snap'[t][j].stream)
                          \/ /\ snap'[t][i].stream = snap'[t][j].stream
                             /\ StrRank(snap'[t][i].record) < StrRank(snap'[t][j].record)
    /\ (pc[t] = "compact_rename" /\ pc'[t] = "idle")
         => /\ file'.exists
            /\ file'.data = JsonLines(snap[t])
            /\ Load(file').ok
            /\ JsonLines(SortedValues(Values(Load(file').map))) = file'.data

\* C16: compaction writes exactly one line per key of the map it
\* snapshots, ordered by (stream, record), and compacting the map its
\* output loads to gives the same file again.
C16_CompactionCanonical == [][C16_Step]_vars

\* A compaction triggered by the write counter has replaced the log of a
\* two-entry map.
C16_Witness ==
  /\ \E t \in Tasks : pc[t] = "idle" /\ ret[t].done /\ ret[t].id = calls
  /\ write_count = COMPACT_EVERY
  /\ DOMAIN entries = {"a/r2", "b/r1"}
  /\ file.exists
  /\ file.data = JsonLines(<<entries["a/r2"], entries["b/r1"]>>)

\* min(max(5000 * 2^min(r,10), 5000), 600000)
ClampedDelay(r) ==
  LET raw == 5000 * 2 ^ (IF r < 10 THEN r ELSE 10)
      low == IF raw < 5000 THEN 5000 ELSE raw
  IN IF low > 600000 THEN 600000 ELSE low

\* C17: the delay for retry count r is min(max(5000 * 2^min(r,10), 5000),
\* 600000) ms, non-decreasing in r, never below 5000 and 600000 from r = 7
\* on; a job that failed in this run has next_retry_at = the time of the
\* failure plus the delay of its new retry count.
C17_Backoff ==
  /\ \A r \in 0..(MaxLoadedRetry + 1) :
       /\ BackoffDelay(r) = ClampedDelay(r)
       /\ BackoffDelay(r) >= 5000
       /\ r >= 1 => BackoffDelay(r - 1) <= BackoffDelay(r)
       /\ r >= 7 => BackoffDelay(r) = 600000
  /\ \A e \in Values(q_entries) :
       e.retry_count > uhist.base
         => \E t \in 0..nowMs : e.next_retry_at = t + ClampedDelay(e.retry_count)

\* A job loaded with at least seven failures has failed once more after
\* the clock moved: it waits the full ten minutes.
C17_Witness ==
  \E e \in Values(q_entries) :
    /\ uhist.base >= 7
    /\ e.retry_count = uhist.base + 1
    /\ nowMs = 1
    /\ e.next_retry_at = 600001

\* C18: every enqueue that returned added a job of its own: with the
\* caller back from n enqueue calls and no upload dispatched yet, the map
\* and the queue file hold n jobs.
C18_EnqueueAddsJob ==
  (IdleCaller \in Running /\ uhist.attempted = {})
    => /\ Cardinality(DOMAIN q_entries) = uhist.enq
       /\ Cardinality(DOMAIN LoadQueue(q_file)) = uhist.enq

\* C19: under fair scheduling, with the artifact of every loaded job on
\* disk, no enqueue, and presign and PUT requests that eventually succeed,
\* the queue eventually becomes and stays empty.
C19_QueueDrains == <>[](q_entries = EmptyMap)

\* C20: from_path applied to path_prefix() of an id, with or without
\* further segments appended, returns that id, for every stream name and
\* timestamp.
C20_PathRoundTrip == rid.phase = "parsed" => rid.parsed = Some(rid.id)

\* C21: no compaction is at work, from its map snapshot to the end of its
\* rename, while another task is in the file-writing section of an append:
\* every task at work in a compaction holds the write mutex.
C21_CompactionHoldsMutex ==
  LET Compacting(t) == pc[t] \in {"compact_flock", "compact_tmp", "compact_remove",
                                  "compact_rename"}
  IN \A t \in Tasks :
       Compacting(t) => /\ write_lock = t
                        /\ \A u \in Tasks \ {t} : pc[u] # "append_write"

\* The attempt r ends this step with a non-success status of its PUT.
CountedFailure(r) ==
  /\ r.kind = "attempt"
  /\ r.pc = "put"
  /\ \E r2 \in BagToSet(procs') :
       /\ r2.pc = "persist_lock" /\ r2.mode = "failure" /\ r2.ent.id = r.ent.id
       /\ procs' = (procs (-) SetToBag({r})) (+) SetToBag({r2})

C22_Step ==
  \A r \in Running :
    CountedFailure(r)
      => /\ r.ent.id \in DOMAIN q_entries
         /\ r.ent.id \in DOMAIN q_entries'
         /\ q_entries'[r.ent.id].retry_count = q_entries[r.ent.id].retry_count + 1
         /\ q_entries'[r.ent.id].next_retry_at
              = nowMs + ClampedDelay(q_entries'[r.ent.id].retry_count)

\* C22: an attempt that ends with a non-success status raises the stored
\* retry_count of its job by exactly one and stores next_retry_at = now +
\* the delay of the new count, under any interleaving of attempts.
C22_FailureCountsOnce == [][C22_Step]_vars

\* This step spawns the attempt of the first job of the batch.
Dispatched ==
  /\ poll.pc = "dispatch"
  /\ poll.batch # <<>>
  /\ poll'.batch = Tail(poll.batch)
  /\ procs' = procs (+) SetToBag({Spawned(Head(poll.batch))})

C23_Step ==
  (Dispatched /\ Head(poll.batch).id \in DOMAIN q_entries)
    => q_entries[Head(poll.batch).id].next_retry_at <= nowMs

\* C23: no attempt starts for a job whose stored next_retry_at is later
\* than the current time.
C23_NoEarlyAttempt == [][C23_Step]_vars

C24_Step ==
  \A r \in Running :
    (r.kind = "attempt" /\ r.pc \in {"presign", "read", "put"}
       /\ procs' = procs (-) SetToBag({r}))
      => /\ q_entries' = q_entries
         /\ q_file' = q_file
         /\ q_tmp' = q_tmp

\* C24: an attempt that fails at the presign request, at the read of the
\* local file or with a network error of the PUT leaves the job map and
\* the queue file as they were.
C24_ErrorChangesNothing == [][C24_Step]_vars

\* A job was attempted, no attempt is in flight, nothing was uploaded, and
\* the job is still stored as never retried: its attempts ended in errors.
C24_Witness ==
  /\ InFlight = 0
  /\ uhist.uploaded = {}
  /\ uhist.again = {}
  /\ \E id \in uhist.attempted :
       /\ id \in DOMAIN q_entries
       /\ q_entries[id].retry_count = 0
       /\ q_entries[id].next_retry_at = 0
       /\ id \in DOMAIN LoadQueue(q_file)
       /\ LoadQueue(q_file)[id] = q_entries[id]

\* C25: every attempt in flight holds one permit and gives it back when it
\* ends, whatever its outcome: the free permits and the attempts in flight
\* add up to max(cfg.concurrency, 1), so that all permits are free when no
\* attempt is in flight.
C25_PermitsReleased ==
  /\ permits + InFlight = SemaphoreSize(concurrency)
  /\ InFlight = 0 => permits = Max(concurrency, 1)

\* Attempts have ended with a success (a job uploaded), with a counted
\* failure (a job stored with retry_count 1) and none is in flight.
C25_Witness ==
  /\ InFlight = 0
  /\ poll.pc = "sleep"
  /\ uhist.uploaded # {}
  /\ \E e \in Values(q_entries) : e.retry_count = 1 /\ e.id \notin uhist.uploaded
  /\ permits = SemaphoreSize(concurrency)

\* C26: once every call has returned, loading the log file yields the
\* in-memory map, under any interleaving of concurrent callers.
C26_QuiescentLogEqualsMap ==
  (\A t \in Tasks : pc[t] = "idle") => (Load(file).ok /\ Load(file).map = entries)

\* C27: at most one attempt is in flight for a job id (ids enqueued once).
C27_OneAttemptPerJob ==
  \A r \in Running :
    (r.kind = "attempt" /\ r.ent.id \notin uhist.again)
      => /\ CopiesIn(r, procs) = 1
         /\ \A r2 \in Running \ {r} : r2.kind = "attempt" => r2.ent.id # r.ent.id

C27_tmp_OnePermit == concurrency = 2 \/ C27_OneAttemptPerJob

\* The polling run has ended: the last page came back empty.
PollingDone == listed.valid /\ listed.sessions = <<>>

\* C28: a caller that polls list_sessions with limit k and the returned
\* cursor, with no mutation in between, has received every matching
\* non-Acked entry exactly once when a page comes back empty, also when
\* entries share their updated_at.
C28_PollingSeesAll ==
  PollingDone
    => /\ Len(listed.got) = Cardinality(Matching(listed.stream, listed.first))
       /\ \A e \in Matching(listed.stream, listed.first) :
            Cardinality({i \in 1..Len(listed.got) : listed.got[i] = Session(e)}) = 1

C29_Step ==
  \A k \in DOMAIN entries :
    (/\ entries[k].status = "Acked"
     /\ k \in DOMAIN entries'
     /\ ~\E t \in Tasks : Called(t, "upsert") /\ Key(pend'[t][1]) = k)
      => entries'[k].status = "Acked"

\* C29: an entry with status Acked keeps it until delete_acked removes the
\* entry or upsert replaces it; update_status does not change it.
C29_AckedIsFinal == [][C29_Step]_vars

\* The lines of the log file.
LineCount == Cardinality({i \in 1..Len(file.data) : file.data[i] = NL})

\* C30: at most 200 entries are appended to the log between two
\* compactions: from a start on no file, with every call returned, the log
\* never holds more than 200 lines.
C30_LogGrowthBounded ==
  (\A t \in Tasks : pc[t] = "idle") => LineCount <= 200

\* ---------------------------------------------------------------- C31
\* A call in progress: the task is inside upsert, update_status, ack or
\* delete_acked (list_sessions is one step under the map's read lock, and at
\* "list_done" it has returned its page to the caller).
InCall(t) == pc[t] \notin {"idle", "list_done"}

\* C31: under fair scheduling and with every file operation succeeding, every
\* call of upsert, update_status, ack, delete_acked and list_sessions that has
\* started eventually returns; no interleaving of the acquisitions of the map
\* lock, the write mutex and the lock-file lock leaves a caller waiting forever.
C31_EveryCallReturns == \A t \in Tasks : InCall(t) ~> ~InCall(t)

\* Both locks contended at once: one caller holds the write mutex and waits
\* for the lock file, which the compaction of another caller's delete_acked
\* holds without the write mutex.
C31_Witness ==
  \E t, u \in Tasks :
    /\ t # u
    /\ write_lock = t
    /\ pc[t] \in {"append_flock", "compact_flock"}
    /\ flock = u
    /\ pc[u] \in {"compact_tmp", "compact_remove", "compact_rename"}
====
